---- MODULE Spec2Model ----
(***************************************************************************)
(* PosthogHandler (openbb_core/app/logs/handlers/posthog_handler.py):      *)
(* a logging handler that classifies log records, builds a property bag    *)
(* and forwards accepted events to the Posthog client.                     *)
(*                                                                         *)
(* Text is modelled as a sequence of one-character strings, a Python dict  *)
(* as a sequence of key/value pairs in insertion order, a Python value as  *)
(* a record [t, n, s, d] (type tag, integer, text, dict).                  *)
(***************************************************************************)
EXTENDS Integers, Sequences, FiniteSets, TLC

(* ---------------------------------------------------------------------- *)
(* Python values                                                           *)
(* ---------------------------------------------------------------------- *)
None == [t |-> "none", n |-> 0, s |-> <<>>, d |-> <<>>]
PyInt(i) == [t |-> "int", n |-> i, s |-> <<>>, d |-> <<>>]
PyStr(x) == [t |-> "str", n |-> 0, s |-> x, d |-> <<>>]
PyDict(p) == [t |-> "dict", n |-> 0, s |-> <<>>, d |-> p]

\* Python truth value of a value (bool(x))
Truthy(v) ==
    CASE v.t = "none" -> FALSE
      [] v.t = "int"  -> v.n # 0
      [] v.t = "str"  -> v.s # <<>>
      [] OTHER        -> v.d # <<>>

(* ---------------------------------------------------------------------- *)
(* dict operations (insertion ordered)                                     *)
(* ---------------------------------------------------------------------- *)
DictKeys(d) == {d[i].k : i \in 1..Len(d)}
DictHas(d, key) == key \in DictKeys(d)
DictGet(d, key) == d[CHOOSE i \in 1..Len(d) : d[i].k = key].v

\* d[key] = val : an existing key keeps its position, a new key is appended
DictSet(d, key, val) ==
    IF DictHas(d, key)
    THEN [i \in 1..Len(d) |-> IF d[i].k = key THEN [k |-> key, v |-> val] ELSE d[i]]
    ELSE Append(d, [k |-> key, v |-> val])

\* {**d1, **d2}
RECURSIVE DictMerge(_, _)
DictMerge(d1, d2) ==
    IF d2 = <<>> THEN d1
    ELSE DictMerge(DictSet(d1, d2[1].k, d2[1].v), Tail(d2))

\* d.pop(key, None)
DictPop(d, key) == SelectSeq(d, LAMBDA p : p.k # key)

(* ---------------------------------------------------------------------- *)
(* text                                                                    *)
(* ---------------------------------------------------------------------- *)
NL == "\n"
DQ == "\""

UpperCase ==
    <<"A", "B", "C", "D", "E", "F", "G", "H", "I", "J", "K", "L", "M",
      "N", "O", "P", "Q", "R", "S", "T", "U", "V", "W", "X", "Y", "Z">>
LowerCase ==
    <<"a", "b", "c", "d", "e", "f", "g", "h", "i", "j", "k", "l", "m",
      "n", "o", "p", "q", "r", "s", "t", "u", "v", "w", "x", "y", "z">>

LowerChar(c) ==
    IF \E i \in 1..Len(UpperCase) : UpperCase[i] = c
    THEN LowerCase[CHOOSE i \in 1..Len(UpperCase) : UpperCase[i] = c]
    ELSE c

\* str.lower()
Lower(x) == [i \in 1..Len(x) |-> LowerChar(x[i])]

\* x[pos:].startswith(p)   (pos is 1-based)
StartsWithAt(x, pos, p) ==
    /\ pos + Len(p) - 1 <= Len(x)
    /\ \A i \in 1..Len(p) : x[pos + i - 1] = p[i]

\* first index i >= pos with x[i] = c, or Len(x) + 1
RECURSIVE IndexFrom(_, _, _)
IndexFrom(x, pos, c) ==
    IF pos > Len(x) THEN Len(x) + 1
    ELSE IF x[pos] = c THEN pos
    ELSE IndexFrom(x, pos + 1, c)

(* ---------------------------------------------------------------------- *)
(* json.loads, for the JSON texts made of objects with string keys,        *)
(* strings without escapes and non-negative integers; any other text is    *)
(* rejected (JSONDecodeError).  A result is [ok, v, pos]: pos is the index *)
(* after the value.                                                        *)
(* ---------------------------------------------------------------------- *)
JsonWs == {" ", "\t", "\r", NL}
Digits == <<"0", "1", "2", "3", "4", "5", "6", "7", "8", "9">>
IsDigit(c) == \E i \in 1..10 : Digits[i] = c
DigitVal(c) == (CHOOSE i \in 1..10 : Digits[i] = c) - 1
JsonFail == [ok |-> FALSE, v |-> None, pos |-> 0]

RECURSIVE SkipWs(_, _)
SkipWs(x, pos) ==
    IF pos <= Len(x) /\ x[pos] \in JsonWs THEN SkipWs(x, pos + 1) ELSE pos

\* the digits from pos on, as a number: [n, pos]
RECURSIVE ScanInt(_, _, _)
ScanInt(x, pos, acc) ==
    IF pos <= Len(x) /\ IsDigit(x[pos])
    THEN ScanInt(x, pos + 1, acc * 10 + DigitVal(x[pos]))
    ELSE [n |-> acc, pos |-> pos]

RECURSIVE ParseValue(_, _)
RECURSIVE ParseMembers(_, _, _)

\* a JSON string whose opening quote is at pos
ParseString(x, pos) ==
    LET close == IndexFrom(x, pos + 1, DQ) IN
    IF close > Len(x) \/ (\E i \in (pos + 1)..(close - 1) : x[i] = "\\")
    THEN JsonFail
    ELSE [ok |-> TRUE, v |-> PyStr(SubSeq(x, pos + 1, close - 1)), pos |-> close + 1]

ParseValue(x, pos0) ==
    LET pos == SkipWs(x, pos0) IN
    IF pos > Len(x) THEN JsonFail
    ELSE IF x[pos] = "{" THEN
        LET q == SkipWs(x, pos + 1) IN
        IF q <= Len(x) /\ x[q] = "}"
        THEN [ok |-> TRUE, v |-> PyDict(<<>>), pos |-> q + 1]
        ELSE ParseMembers(x, q, <<>>)
    ELSE IF x[pos] = DQ THEN ParseString(x, pos)
    ELSE IF x[pos] = "0" THEN [ok |-> TRUE, v |-> PyInt(0), pos |-> pos + 1]
    ELSE IF IsDigit(x[pos]) THEN
        LET r == ScanInt(x, pos, 0) IN
        IF r.pos <= Len(x) /\ x[r.pos] \in {".", "e", "E"} THEN JsonFail
        ELSE [ok |-> TRUE, v |-> PyInt(r.n), pos |-> r.pos]
    ELSE JsonFail

\* the members of an object from the key at pos on; acc holds the pairs read
ParseMembers(x, pos, acc) ==
    IF pos > Len(x) \/ x[pos] # DQ THEN JsonFail
    ELSE
    LET key == ParseString(x, pos) IN
    IF ~key.ok THEN JsonFail
    ELSE
    LET c == SkipWs(x, key.pos) IN
    IF c > Len(x) \/ x[c] # ":" THEN JsonFail
    ELSE
    LET val == ParseValue(x, c + 1) IN
    IF ~val.ok THEN JsonFail
    ELSE
    LET e    == SkipWs(x, val.pos)
        acc2 == DictSet(acc, key.v.s, val.v)
    IN
    IF e > Len(x) THEN JsonFail
    ELSE IF x[e] = "}" THEN [ok |-> TRUE, v |-> PyDict(acc2), pos |-> e + 1]
    ELSE IF x[e] = "," THEN ParseMembers(x, SkipWs(x, e + 1), acc2)
    ELSE JsonFail

\* json.loads(x): the whole text must be one value (else "Extra data")
json_loads(x) ==
    LET r == ParseValue(x, 1) IN
    IF r.ok /\ SkipWs(x, r.pos) > Len(x) THEN [ok |-> TRUE, v |-> r.v]
    ELSE [ok |-> FALSE, v |-> None]

(* ---------------------------------------------------------------------- *)
(* re.findall of the tag pattern (a tag, colon, space, rest of the line)   *)
(* and re.match of the noise-marker prefix                                 *)
(* ---------------------------------------------------------------------- *)
STARTUP == <<"S", "T", "A", "R", "T", "U", "P">>
CMD == <<"C", "M", "D">>
ERROR == <<"E", "R", "R", "O", "R">>
LogTags == <<STARTUP, CMD, ERROR>>
COLON_SP == <<":", " ">>

\* the tag the pattern matches at pos (the alternatives in order), or <<>>
TagAt(x, pos) ==
    IF \E i \in 1..Len(LogTags) : StartsWithAt(x, pos, LogTags[i] \o COLON_SP)
    THEN LogTags[CHOOSE i \in 1..Len(LogTags) :
                    /\ StartsWithAt(x, pos, LogTags[i] \o COLON_SP)
                    /\ \A j \in 1..(i - 1) : ~StartsWithAt(x, pos, LogTags[j] \o COLON_SP)]
    ELSE <<>>

\* the non-overlapping matches from pos on, left to right; the payload group runs to the
\* end of the line
RECURSIVE FindAll(_, _)
FindAll(x, pos) ==
    IF pos > Len(x) THEN <<>>
    ELSE
    LET tag == TagAt(x, pos) IN
    IF tag = <<>> THEN FindAll(x, pos + 1)
    ELSE
    LET start == pos + Len(tag) + 2
        eol   == IndexFrom(x, start, NL)
    IN <<[tag |-> tag, payload |-> SubSeq(x, start, eol - 1)]>> \o FindAll(x, eol)

NoiseMarkers ==
    <<<<"Q", "U", "E", "U", "E">>, <<"S", "T", "A", "R", "T">>, <<"E", "N", "D">>,
      <<"I", "N", "P", "U", "T", ":">>>>

\* re.match of ^(QUEUE|START|END|INPUT:) on log_line
MatchesNoise(log_line) ==
    \E i \in 1..Len(NoiseMarkers) : StartsWithAt(log_line, 1, NoiseMarkers[i])

(* ---------------------------------------------------------------------- *)
(* PosthogHandler: constants                                               *)
(* ---------------------------------------------------------------------- *)
log_startup == <<"l", "o", "g", "_", "s", "t", "a", "r", "t", "u", "p">>
log_cmd == <<"l", "o", "g", "_", "c", "m", "d">>
log_error == <<"l", "o", "g", "_", "e", "r", "r", "o", "r">>
log_warning == <<"l", "o", "g", "_", "w", "a", "r", "n", "i", "n", "g">>

\* class AllowedEvents(Enum): the values of its members
AllowedEvents == {log_startup, log_cmd, log_error, log_warning}

K_appName == <<"a", "p", "p", "N", "a", "m", "e">>
K_subAppName == <<"s", "u", "b", "A", "p", "p", "N", "a", "m", "e">>
K_appId == <<"a", "p", "p", "I", "d">>
K_sessionId == <<"s", "e", "s", "s", "i", "o", "n", "I", "d">>
K_platform == <<"p", "l", "a", "t", "f", "o", "r", "m">>
K_pythonVersion == <<"p", "y", "t", "h", "o", "n", "V", "e", "r", "s", "i", "o", "n">>
K_obbPlatformVersion == <<"o", "b", "b", "P", "l", "a", "t", "f", "o", "r", "m", "V", "e", "r", "s", "i", "o", "n">>
K_userId == <<"u", "s", "e", "r", "I", "d">>
K_exception == <<"e", "x", "c", "e", "p", "t", "i", "o", "n">>
K_type == <<"t", "y", "p", "e">>
K_value == <<"v", "a", "l", "u", "e">>
K_level == <<"l", "e", "v", "e", "l">>
K_message == <<"m", "e", "s", "s", "a", "g", "e">>
K_email == <<"e", "m", "a", "i", "l">>
K_primaryUsage == <<"p", "r", "i", "m", "a", "r", "y", "U", "s", "a", "g", "e">>
LOG_ == <<"l", "o", "g", "_">>

DEBUG == <<"D", "E", "B", "U", "G">>
INFO == <<"I", "N", "F", "O">>
WARNING == <<"W", "A", "R", "N", "I", "N", "G">>
CRITICAL == <<"C", "R", "I", "T", "I", "C", "A", "L">>

\* logging.getLevelName(levelno) for the standard levels
getLevelName(levelno) ==
    CASE levelno = 10 -> DEBUG
      [] levelno = 20 -> INFO
      [] levelno = 30 -> WARNING
      [] levelno = 40 -> ERROR
      [] levelno = 50 -> CRITICAL

\* the attributes extract_log_extra reads, in order, with their keys
SeedFields ==
    << [attr |-> "app_name", key |-> K_appName],
       [attr |-> "sub_app_name", key |-> K_subAppName],
       [attr |-> "app_id", key |-> K_appId],
       [attr |-> "session_id", key |-> K_sessionId],
       [attr |-> "platform", key |-> K_platform],
       [attr |-> "python_version", key |-> K_pythonVersion],
       [attr |-> "platform_version", key |-> K_obbPlatformVersion] >>

\* a settings object is a function from its attribute names to values;
\* reading an attribute it lacks raises AttributeError
HasAttr(obj, a) == a \in DOMAIN obj

(* ---------------------------------------------------------------------- *)
(* PosthogHandler: the methods, as functions of what they read             *)
(* A result carries exc, the exception raised (NoExc when none).           *)
(* ---------------------------------------------------------------------- *)
NoExc == "none"

\* log_to_dict(log_info): [exc, d]
RECURSIVE LoadMatches(_, _)
LoadMatches(matches, log_dict) ==
    IF matches = <<>> THEN [exc |-> NoExc, d |-> log_dict]
    ELSE
    LET loaded == json_loads(matches[1].payload) IN
    IF ~loaded.ok THEN [exc |-> "JSONDecodeError", d |-> <<>>]
    ELSE LoadMatches(Tail(matches), DictSet(log_dict, matches[1].tag, loaded.v))

log_to_dict(log_info) == LoadMatches(FindAll(log_info, 1), <<>>)

\* extract_log_extra(record), reading settings object S: [exc, d]
extract_log_extra(S, record) ==
    IF \E i \in 1..Len(SeedFields) : ~HasAttr(S, SeedFields[i].attr)
    THEN [exc |-> "AttributeError", d |-> <<>>]
    ELSE IF ~HasAttr(S, "user_id") THEN [exc |-> "AttributeError", d |-> <<>>]
    ELSE
    LET seeded == [i \in 1..Len(SeedFields) |->
                      [k |-> SeedFields[i].key, v |-> S[SeedFields[i].attr]]]
        withUser == IF Truthy(S["user_id"])
                    THEN DictSet(seeded, K_userId, S["user_id"])
                    ELSE seeded
        withExtra == IF record.has_extra
                     THEN DictMerge(withUser, record.extra)
                     ELSE withUser
        withExc == IF record.exc_info # <<>>
                   THEN DictSet(withExtra, K_exception,
                                PyDict(<< [k |-> K_type, v |-> PyStr(record.exc_info[1].type)],
                                          [k |-> K_value, v |-> PyStr(record.exc_info[1].value)] >>))
                   ELSE withExtra
    IN [exc |-> NoExc, d |-> withExc]

\* line 75 with the payload of the first tag as the default
StartupOrAll_Flatten(log_dict) ==
    IF DictHas(log_dict, STARTUP) THEN DictGet(log_dict, STARTUP) ELSE log_dict[1].v

\* line 75: log_dict.get(STARTUP, log_dict)
StartupOrAll(log_dict) ==
    IF DictHas(log_dict, STARTUP) THEN DictGet(log_dict, STARTUP) ELSE PyDict(log_dict)

\* lines 77-78 without the pop of message
MergeStructured_KeepMessage(log_extra, payload) == DictMerge(log_extra, payload)

\* lines 77-78: the merge of the structured data and the pop of message
MergeStructured(log_extra, payload) ==
    DictPop(DictMerge(log_extra, payload), K_message)

\* line 80 with the test of log_dict the wrong way round
IsNoise_Inverted(log_line, log_dict) == MatchesNoise(log_line) /\ Truthy(log_dict)

\* line 80: the noise-marker return; log_dict is the value the name holds there
IsNoise(log_line, log_dict) == MatchesNoise(log_line) /\ ~Truthy(log_dict)

\* line 83 letting every event name through
IsAllowed_Any(event_name) == event_name # <<>>

\* line 83: the allowed-event test (True when the record goes on)
IsAllowed(event_name) == event_name \in AllowedEvents

\* line 86 without the test of the flag
NeedsLogin_IgnoreFlag(flag, S) == Truthy(S["user_id"])

\* line 86: the test guarding the one-time identify
NeedsLogin(flag, S) == ~flag /\ Truthy(S["user_id"])

\* the calls to the Posthog client
Call(op, subject, arg, props) == [op |-> op, subject |-> subject, arg |-> arg, props |-> props]

\* lines 66-84 once extract_log_extra (line 69) and log_to_dict (line 73) have
\* run: [exc, accepted, event_name, log_extra]
Classified(exc, accepted, event_name, log_extra) ==
    [exc |-> exc, accepted |-> accepted, event_name |-> event_name, log_extra |-> log_extra]

ClassifyWith(record, extra, parsed) ==
    LET level_name == getLevelName(record.levelno)
        log_line   == record.msg
        base       == DictMerge(extra.d, << [k |-> K_level, v |-> PyStr(level_name)],
                                            [k |-> K_message, v |-> PyStr(log_line)] >>)
        structured == parsed.d # <<>>
        event_name == IF structured THEN LOG_ \o Lower(parsed.d[1].k)
                      ELSE LOG_ \o Lower(level_name)
        log_dict   == IF structured THEN StartupOrAll(parsed.d) ELSE PyDict(<<>>)
    IN
    IF extra.exc # NoExc THEN Classified(extra.exc, FALSE, <<>>, <<>>)
    ELSE IF parsed.exc # NoExc THEN Classified(parsed.exc, FALSE, <<>>, <<>>)
    ELSE IF structured /\ log_dict.t # "dict"
    THEN Classified("TypeError", FALSE, event_name, <<>>)
    ELSE Classified(NoExc,
                    ~IsNoise(log_line, log_dict) /\ IsAllowed(event_name),
                    event_name,
                    IF structured THEN MergeStructured(base, log_dict.d) ELSE base)

\* lines 63-84: level name, log line, property bag, event name and the two
\* early returns
Classify(S, record) ==
    ClassifyWith(record, extract_log_extra(S, record), log_to_dict(record.msg))

\* lines 87-95 with the flag set after the two calls instead of before them
LoginSequence_FlagLast(S, fail) ==
    IF ~HasAttr(S, "user_email") \/ ~HasAttr(S, "user_primary_usage")
    THEN [exc |-> "AttributeError", logged_in |-> FALSE, calls |-> <<>>]
    ELSE
    LET identify == Call("identify", S["user_id"], None,
                         << [k |-> K_email, v |-> S["user_email"]],
                            [k |-> K_primaryUsage, v |-> S["user_primary_usage"]] >>)
        alias    == Call("alias", S["user_id"], S["app_id"], <<>>)
    IN
    IF fail = "identify"
    THEN [exc |-> "PosthogError", logged_in |-> FALSE, calls |-> <<identify>>]
    ELSE IF fail = "alias"
    THEN [exc |-> "PosthogError", logged_in |-> FALSE, calls |-> <<identify, alias>>]
    ELSE [exc |-> NoExc, logged_in |-> TRUE, calls |-> <<identify, alias>>]

\* lines 87-95: the flag, then identify, then alias; fail names the client
\* call that raises when it is reached: [exc, logged_in, calls]
LoginSequence(S, fail) ==
    IF ~HasAttr(S, "user_email") \/ ~HasAttr(S, "user_primary_usage")
    THEN [exc |-> "AttributeError", logged_in |-> TRUE, calls |-> <<>>]
    ELSE
    LET identify == Call("identify", S["user_id"], None,
                         << [k |-> K_email, v |-> S["user_email"]],
                            [k |-> K_primaryUsage, v |-> S["user_primary_usage"]] >>)
        alias    == Call("alias", S["user_id"], S["app_id"], <<>>)
    IN
    IF fail = "identify"
    THEN [exc |-> "PosthogError", logged_in |-> TRUE, calls |-> <<identify>>]
    ELSE IF fail = "alias"
    THEN [exc |-> "PosthogError", logged_in |-> TRUE, calls |-> <<identify, alias>>]
    ELSE [exc |-> NoExc, logged_in |-> TRUE, calls |-> <<identify, alias>>]

\* lines 86-101 for a record that passed the two returns, c its classification
\* and login the outcome of lines 87-95; the warning of lines 102-103 changes
\* nothing the handler keeps
SendAccepted(S, flag, fail, c, login) ==
    IF login.exc # NoExc
    THEN [exc |-> login.exc, logged_in |-> login.logged_in, calls |-> login.calls,
          accepted |-> TRUE, event_name |-> c.event_name]
    ELSE [exc |-> IF fail = "capture" THEN "PosthogError" ELSE NoExc,
          logged_in |-> login.logged_in,
          calls |-> Append(login.calls,
                           Call("capture", S["app_id"], PyStr(c.event_name), c.log_extra)),
          accepted |-> TRUE, event_name |-> c.event_name]

SendClassified(S, flag, fail, c) ==
    IF ~c.accepted
    THEN [exc |-> c.exc, logged_in |-> flag, calls |-> <<>>,
          accepted |-> FALSE, event_name |-> c.event_name]
    ELSE SendAccepted(S, flag, fail, c,
                      IF NeedsLogin(flag, S) THEN LoginSequence(S, fail)
                      ELSE [exc |-> NoExc, logged_in |-> flag, calls |-> <<>>])

\* send(record) with the sink reading settings object S and flag logged_in:
\* [exc, logged_in, calls, accepted, event_name]
send(S, flag, record, fail) == SendClassified(S, flag, fail, Classify(S, record))

\* line 50: except Exception
ExceptionClasses == {"JSONDecodeError", "AttributeError", "TypeError", "PosthogError"}
\* line 50 catching the JSON error only
Catches_OnlyJson(exc) == exc = "JSONDecodeError"
Catches(exc) == exc \in ExceptionClasses

\* lines 48-51 around the result r of send:
\* [outcome, handled, exc, logged_in, calls, accepted, event_name];
\* outcome is returned or raised, handled counts the handleError calls
EmitAround(r) ==
    [outcome |-> IF r.exc = NoExc \/ Catches(r.exc) THEN "returned" ELSE "raised",
     handled |-> IF r.exc # NoExc /\ Catches(r.exc) THEN 1 ELSE 0,
     exc |-> r.exc, logged_in |-> r.logged_in, calls |-> r.calls,
     accepted |-> r.accepted, event_name |-> r.event_name]

\* emit(record)
emit(S, flag, record, fail) == EmitAround(send(S, flag, record, fail))

(* ---------------------------------------------------------------------- *)
(* Inputs: filtered log lines, records, settings objects                   *)
(* (record.getMessage() after FormatterWithExceptions.filter_log_line is   *)
(* the text a record carries here)                                         *)
(* ---------------------------------------------------------------------- *)
M_hello ==
    <<"h", "e", "l", "l", "o">>
M_queue ==
    <<"Q", "U", "E", "U", "E", " ", "s", "o", "m", "e", "t", "h", "i", "n", "g", " ", "h", "a", "p", "p", "e", "n", "e", "d">>
M_start ==
    <<"S", "T", "A", "R", "T", " ", "x">>
M_end ==
    <<"E", "N", "D">>
M_input ==
    <<"I", "N", "P", "U", "T", ":", " ", "x">>
M_input_word ==
    <<"I", "N", "P", "U", "T", " ", "x">>
M_startup_a ==
    <<"S", "T", "A", "R", "T", "U", "P", ":", " ", "{", DQ, "a", DQ, ":", " ", "1", "}">>
M_startup_empty ==
    <<"S", "T", "A", "R", "T", "U", "P", ":", " ", "{", "}">>
M_startup_message ==
    <<"S", "T", "A", "R", "T", "U", "P", ":", " ", "{", DQ, "m", "e", "s", "s", "a", "g", "e", DQ, ":", " ", "2", "}">>
M_startup_level ==
    <<"S", "T", "A", "R", "T", "U", "P", ":", " ", "{", DQ, "l", "e", "v", "e", "l", DQ, ":", " ", "2", "}">>
M_startup_int ==
    <<"S", "T", "A", "R", "T", "U", "P", ":", " ", "1">>
M_cmd_price ==
    <<"C", "M", "D", ":", " ", "{", DQ, "c", "m", "d", DQ, ":", " ", DQ, "p", "r", "i", "c", "e", DQ, "}">>
M_cmd_bad ==
    <<"C", "M", "D", ":", " ", "{", "b", "a", "d">>
M_queue_cmd ==
    <<"Q", "U", "E", "U", "E", " ", "C", "M", "D", ":", " ", "{", "}">>
M_error_e ==
    <<"E", "R", "R", "O", "R", ":", " ", "{", DQ, "e", DQ, ":", " ", "1", "}">>
M_cmd_then_error ==
    <<"C", "M", "D", ":", " ", "{", "}", NL, "E", "R", "R", "O", "R", ":", " ", "{", DQ, "e", DQ, ":", " ", "1", "}">>
M_error_then_cmd ==
    <<"E", "R", "R", "O", "R", ":", " ", "{", "}", NL, "C", "M", "D", ":", " ", "{", "}">>
T_u1 == <<"u", "1">>
T_u2 == <<"u", "2">>
T_a1 == <<"a", "1">>
T_a2 == <<"a", "2">>
T_x == <<"x">>
K_a == <<"a">>
K_cmd == <<"c", "m", "d">>
T_price == <<"p", "r", "i", "c", "e">>

NoTagMessages == {M_hello, M_queue, M_start, M_end, M_input, M_input_word}
TagMessages ==
    {M_startup_a, M_startup_empty, M_startup_message, M_startup_level, M_startup_int,
     M_cmd_price, M_cmd_bad, M_queue_cmd, M_error_e, M_cmd_then_error, M_error_then_cmd}

Rec(levelno, msg) ==
    [levelno |-> levelno, msg |-> msg, has_extra |-> FALSE, extra |-> <<>>, exc_info |-> <<>>]

\* a record logged with extra = {appId: x}
R_extra == [Rec(40, M_hello) EXCEPT !.has_extra = TRUE,
                                    !.extra = << [k |-> K_appId, v |-> PyStr(T_x)] >>]
\* a record logged with exception information
R_exc == [Rec(40, M_cmd_price) EXCEPT !.exc_info = << [type |-> <<"T">>, value |-> <<"v">>] >>]

Records ==
    {Rec(l, m) : l \in {10, 20, 30, 40}, m \in NoTagMessages}
    \cup {Rec(50, M_hello)}
    \cup {Rec(l, m) : l \in {20, 40}, m \in TagMessages}
    \cup {R_extra, R_exc}

S_user ==
    [app_name |-> PyStr(<<"n">>), sub_app_name |-> PyStr(<<"s">>), app_id |-> PyStr(T_a1),
     session_id |-> PyStr(<<"i">>), platform |-> PyStr(<<"p">>),
     python_version |-> PyStr(<<"3">>), platform_version |-> PyStr(<<"4">>),
     user_id |-> PyStr(T_u1), user_email |-> PyStr(<<"m">>),
     user_primary_usage |-> PyStr(<<"g">>)]
S_user2 == [S_user EXCEPT !.user_id = PyStr(T_u2)]
S_anon == [S_user EXCEPT !.user_id = PyStr(<<>>), !.user_email = None, !.app_id = PyStr(T_a2)]
Without(obj, a) == [x \in DOMAIN obj \ {a} |-> obj[x]]
S_no_email == Without(S_user, "user_email")
S_no_platform == Without(S_user, "platform")

SettingsValues == {S_user, S_user2, S_anon, S_no_email, S_no_platform}

\* which client call raises when it is reached
FailChoices == {"none", "identify", "alias", "capture"}

MaxObjs == 3
MaxCalls == 3
Addrs == 1..MaxObjs
Threads == {1, 2}

(* ---------------------------------------------------------------------- *)
(* State                                                                   *)
(* ---------------------------------------------------------------------- *)
VARIABLES
    heap,       \* the settings objects alive: address -> object
    sink,       \* self._settings: the address of the sink's settings object
    logged_in,  \* self.logged_in
    written,    \* addresses of objects the caller passed to the sink and kept
    copies,     \* addresses the caller got by reading the settings property
    lastOp,     \* the last operation on the sink and the address it concerned
    last,       \* <<>> or <<the last emit: record, settings read, flag before, result>>
    nIdentify,  \* identify calls issued by this sink
    nAlias,     \* alias calls issued by this sink
    pc,         \* per thread: where it stands in emit
    loc         \* per thread: the locals of send

vars == <<heap, sink, logged_in, written, copies, lastOp, last, nIdentify, nAlias, pc, loc>>

NoLoc == [event_name |-> <<>>, log_extra |-> <<>>]

\* __init__(settings): the caller's object is stored as it is
Init ==
    /\ \E v \in SettingsValues : heap = (1 :> v)
    /\ sink = 1
    /\ logged_in = FALSE
    /\ written = {}
    /\ copies = {}
    /\ lastOp = [op |-> "init", ref |-> 1]
    /\ last = <<>>
    /\ nIdentify = 0
    /\ nAlias = 0
    /\ pc = [t \in Threads |-> "idle"]
    /\ loc = [t \in Threads |-> NoLoc]

\* the objects still referenced stay; the others are freed
Collect(h, refs) == [a \in (DOMAIN h \cap refs) |-> h[a]]
FreshAddr(h) == CHOOSE a \in Addrs \ DOMAIN h : \A b \in Addrs \ DOMAIN h : a <= b
CountCalls(calls, op) == Len(SelectSeq(calls, LAMBDA c : c.op = op))

\* settings.setter: self._settings = settings
settings_set(obj_ref) == obj_ref

\* the getter returning self._settings itself
settings_get_NoCopy(h, ref) == [heap |-> h, ref |-> ref]

\* settings getter: deepcopy(self._settings): [heap, ref]
settings_get(h, ref) ==
    LET b == FreshAddr(h) IN [heap |-> (b :> h[ref]) @@ h, ref |-> b]

\* the caller builds a settings object and assigns it to handler.settings
SetSettings(v, keep) ==
    /\ last = <<>>
    /\ Cardinality(DOMAIN heap) < MaxObjs
    /\ LET a == FreshAddr(heap) IN
       /\ sink' = settings_set(a)
       /\ written' = IF keep THEN written \cup {a} ELSE written
       /\ heap' = Collect((a :> v) @@ heap, {sink'} \cup written' \cup copies)
       /\ lastOp' = [op |-> "set", ref |-> a]
    /\ UNCHANGED <<logged_in, copies, last, nIdentify, nAlias, pc, loc>>

\* the caller reads handler.settings and keeps the result
GetSettings ==
    /\ last = <<>>
    /\ Cardinality(DOMAIN heap) < MaxObjs
    /\ LET r == settings_get(heap, sink) IN
       /\ heap' = r.heap
       /\ copies' = copies \cup {r.ref}
       /\ lastOp' = [op |-> "get", ref |-> r.ref]
    /\ UNCHANGED <<sink, logged_in, written, last, nIdentify, nAlias, pc, loc>>

\* the caller changes an object it holds
Mutate(a, v) ==
    /\ last = <<>>
    /\ a \in written \cup copies
    /\ heap[a] # v
    /\ heap' = [heap EXCEPT ![a] = v]
    /\ lastOp' = [op |-> "mutate", ref |-> a]
    /\ UNCHANGED <<sink, logged_in, written, copies, last, nIdentify, nAlias, pc, loc>>

\* the handler after emit(record) ended with result r
AfterEmit(record, fail, r) ==
    /\ logged_in' = r.logged_in
    /\ nIdentify' = nIdentify + CountCalls(r.calls, "identify")
    /\ nAlias' = nAlias + CountCalls(r.calls, "alias")
    /\ last' = << [record |-> record, settings |-> heap[sink], flag |-> logged_in,
                  fail |-> fail, result |-> r] >>

\* emit(record), run to its end by one caller
Emit(record, fail) ==
    /\ last = <<>>
    /\ nIdentify < MaxCalls /\ nAlias < MaxCalls
    /\ AfterEmit(record, fail, emit(heap[sink], logged_in, record, fail))
    /\ lastOp' = [op |-> "emit", ref |-> sink]
    /\ UNCHANGED <<heap, sink, written, copies, pc, loc>>

\* the caller has looked at what the last emit did and goes on
Observed ==
    /\ last # <<>>
    /\ last' = <<>>
    /\ UNCHANGED <<heap, sink, logged_in, written, copies, lastOp, nIdentify, nAlias, pc, loc>>

ReplaceSettings == \E v \in SettingsValues : SetSettings(v, FALSE)
EmitRecord == \E record \in Records, fail \in FailChoices : Emit(record, fail)

Next == ReplaceSettings \/ EmitRecord \/ Observed

Spec == Init /\ [][Next]_vars

(* ---------------------------------------------------------------------- *)
(* The caller keeps the objects it passes in and reads back                *)
(* ---------------------------------------------------------------------- *)
SettingsRecords == {Rec(40, M_hello), Rec(20, M_cmd_price)}

AssignSettings == \E v \in SettingsValues : SetSettings(v, TRUE)
MutateObject == \E a \in Addrs, v \in SettingsValues : Mutate(a, v)
EmitPlain == \E record \in SettingsRecords : Emit(record, "none")

NextSettings == AssignSettings \/ GetSettings \/ MutateObject \/ EmitPlain \/ Observed

SpecSettings == Init /\ [][NextSettings]_vars

(* ---------------------------------------------------------------------- *)
(* Two threads in emit on the same handler, line by line from the test of  *)
(* logged_in on.  No lock is taken in emit or send.                        *)
(* ---------------------------------------------------------------------- *)
ThreadRecords == {Rec(40, M_hello), Rec(20, M_startup_a), Rec(20, M_hello), Rec(40, M_cmd_bad)}

Goto(t, label) == pc' = [pc EXCEPT ![t] = label]

\* the thread after lines 66-84 gave classification c
AfterClassify(t, c) ==
    IF c.accepted
    THEN /\ Goto(t, "test")
         /\ loc' = [loc EXCEPT ![t] = [event_name |-> c.event_name, log_extra |-> c.log_extra]]
    ELSE UNCHANGED <<pc, loc>>

\* lines 66-84; an exception goes to handleError and emit returns
T_Start(t, record) ==
    /\ pc[t] = "idle"
    /\ last = <<>>
    /\ AfterClassify(t, Classify(heap[sink], record))
    /\ UNCHANGED <<heap, sink, logged_in, written, copies, lastOp, last, nIdentify, nAlias>>

\* line 86: the test of the flag and the user id
T_Test(t) ==
    /\ pc[t] = "test"
    /\ IF NeedsLogin(logged_in, heap[sink]) THEN Goto(t, "set") ELSE Goto(t, "capture")
    /\ UNCHANGED <<heap, sink, logged_in, written, copies, lastOp, last, nIdentify, nAlias, loc>>

\* line 87
T_Set(t) ==
    /\ pc[t] = "set"
    /\ logged_in' = TRUE
    /\ Goto(t, "identify")
    /\ UNCHANGED <<heap, sink, written, copies, lastOp, last, nIdentify, nAlias, loc>>

\* lines 88-94
T_Identify(t, ok) ==
    /\ pc[t] = "identify"
    /\ nIdentify < MaxCalls
    /\ IF ~HasAttr(heap[sink], "user_email") \/ ~HasAttr(heap[sink], "user_primary_usage")
       THEN /\ Goto(t, "idle")
            /\ loc' = [loc EXCEPT ![t] = NoLoc]
            /\ UNCHANGED nIdentify
       ELSE /\ nIdentify' = nIdentify + 1
            /\ IF ok THEN Goto(t, "alias") /\ UNCHANGED loc
               ELSE Goto(t, "idle") /\ loc' = [loc EXCEPT ![t] = NoLoc]
    /\ UNCHANGED <<heap, sink, logged_in, written, copies, lastOp, last, nAlias>>

\* line 95
T_Alias(t, ok) ==
    /\ pc[t] = "alias"
    /\ nAlias < MaxCalls
    /\ nAlias' = nAlias + 1
    /\ IF ok THEN Goto(t, "capture") /\ UNCHANGED loc
       ELSE Goto(t, "idle") /\ loc' = [loc EXCEPT ![t] = NoLoc]
    /\ UNCHANGED <<heap, sink, logged_in, written, copies, lastOp, last, nIdentify>>

\* lines 97-101; emit returns whether or not capture raises
T_Capture(t) ==
    /\ pc[t] = "capture"
    /\ Goto(t, "idle")
    /\ loc' = [loc EXCEPT ![t] = NoLoc]
    /\ UNCHANGED <<heap, sink, logged_in, written, copies, lastOp, last, nIdentify, nAlias>>

ThreadStart == \E t \in Threads, record \in ThreadRecords : T_Start(t, record)
ThreadTest == \E t \in Threads : T_Test(t)
ThreadSet == \E t \in Threads : T_Set(t)
ThreadIdentify == \E t \in Threads, ok \in BOOLEAN : T_Identify(t, ok)
ThreadAlias == \E t \in Threads, ok \in BOOLEAN : T_Alias(t, ok)
ThreadCapture == \E t \in Threads : T_Capture(t)

NextThreads ==
    ThreadStart \/ ThreadTest \/ ThreadSet \/ ThreadIdentify \/ ThreadAlias \/ ThreadCapture

SpecThreads == Init /\ [][NextThreads]_vars

(* ---------------------------------------------------------------------- *)
(* Properties                                                              *)
(* ---------------------------------------------------------------------- *)
HasEmit == last # <<>>
LastEmit == last[1]
CallsOf(op) == SelectSeq(LastEmit.result.calls, LAMBDA c : c.op = op)
CompleteSettings == {S_user, S_user2, S_anon}

C2_EmitNeverRaises ==
    HasEmit =>
      /\ LastEmit.result.outcome = "returned"
      /\ LastEmit.result.handled = (IF LastEmit.result.exc = NoExc THEN 0 ELSE 1)
      /\ (LastEmit.record.msg = M_cmd_bad /\ LastEmit.settings \in CompleteSettings)
           => (LastEmit.result.handled = 1 /\ LastEmit.result.calls = <<>>)
      /\ (LastEmit.settings = S_no_platform) => LastEmit.result.handled = 1
      /\ (\E i \in 1..Len(LastEmit.result.calls) :
              LastEmit.result.calls[i].op = LastEmit.fail)
           => LastEmit.result.handled = 1

C2_Witness ==
    /\ HasEmit
    /\ LastEmit.record.msg = M_cmd_bad
    /\ LastEmit.result.exc = "JSONDecodeError"
    /\ LastEmit.result.handled = 1
    /\ LastEmit.result.outcome = "returned"

C3_FourEvents == {log_startup, log_cmd, log_error, log_warning}

\* C3: every capture call carries one of the four event names log_startup,
\* log_cmd, log_error, log_warning, and a record whose derived event name is
\* not one of them produces no capture call.
C3_ClosedEventSet ==
    HasEmit =>
      /\ \A i \in 1..Len(LastEmit.result.calls) :
            LastEmit.result.calls[i].op = "capture"
              => /\ LastEmit.result.calls[i].arg.t = "str"
                 /\ LastEmit.result.calls[i].arg.s \in C3_FourEvents
      /\ (LastEmit.result.event_name \notin C3_FourEvents) => CallsOf("capture") = <<>>

C3_Witness ==
    /\ HasEmit
    /\ CallsOf("capture") # <<>>
    /\ CallsOf("capture")[1].arg = PyStr(log_warning)

\* the STARTUP messages with a JSON object as payload, and the payload
C4_Cases ==
    { [msg |-> M_startup_a, payload |-> << [k |-> K_a, v |-> PyInt(1)] >>],
      [msg |-> M_startup_message, payload |-> << [k |-> K_message, v |-> PyInt(2)] >>],
      [msg |-> M_startup_level, payload |-> << [k |-> K_level, v |-> PyInt(2)] >>],
      [msg |-> M_startup_empty, payload |-> <<>>] }

\* C4 as stated: a forwarded STARTUP message with an object payload has event
\* name log_startup, every key of the payload at the top level of the
\* properties with the payload's value, and neither a message nor a level key.
C4_Original ==
    HasEmit =>
      \A c \in C4_Cases : LastEmit.record.msg = c.msg =>
        \A i \in 1..Len(CallsOf("capture")) :
          LET cap == CallsOf("capture")[i] IN
          /\ cap.arg = PyStr(log_startup)
          /\ \A j \in 1..Len(c.payload) :
                /\ DictHas(cap.props, c.payload[j].k)
                /\ DictGet(cap.props, c.payload[j].k) = c.payload[j].v
          /\ ~DictHas(cap.props, K_message)
          /\ ~DictHas(cap.props, K_level)

\* C4 amended: a forwarded STARTUP message with an object payload has event
\* name log_startup, every key of the payload other than message at the top
\* level of the properties with the payload's value, and no message key; the
\* level key stays: it holds the severity name unless the payload has a level
\* key of its own.
C4_StartupBag ==
    HasEmit =>
      \A c \in C4_Cases : LastEmit.record.msg = c.msg =>
        \A i \in 1..Len(CallsOf("capture")) :
          LET cap == CallsOf("capture")[i] IN
          /\ cap.arg = PyStr(log_startup)
          /\ \A j \in 1..Len(c.payload) :
                c.payload[j].k # K_message
                  => /\ DictHas(cap.props, c.payload[j].k)
                     /\ DictGet(cap.props, c.payload[j].k) = c.payload[j].v
          /\ ~DictHas(cap.props, K_message)
          /\ DictHas(cap.props, K_level)
          /\ (~DictHas(c.payload, K_level))
                => DictGet(cap.props, K_level) =
                     PyStr(IF LastEmit.record.levelno = 20 THEN INFO ELSE ERROR)

C4_Witness ==
    /\ HasEmit
    /\ LastEmit.record.msg = M_startup_a
    /\ CallsOf("capture") # <<>>
    /\ DictGet(CallsOf("capture")[1].props, K_a) = PyInt(1)

C5_SeededKeys ==
    {K_appName, K_subAppName, K_appId, K_sessionId, K_platform, K_pythonVersion,
     K_obbPlatformVersion}

\* C5 as stated: the forwarded CMD message with payload cmd = price has event
\* name log_cmd and properties holding the seeded context fields and the
\* entry cmd = price.
C5_Original ==
    (HasEmit /\ LastEmit.record.msg = M_cmd_price) =>
      \A i \in 1..Len(CallsOf("capture")) :
        LET cap == CallsOf("capture")[i] IN
        /\ cap.arg = PyStr(log_cmd)
        /\ C5_SeededKeys \subseteq DictKeys(cap.props)
        /\ DictHas(cap.props, K_cmd)
        /\ DictGet(cap.props, K_cmd) = PyStr(T_price)

\* C5 amended: the forwarded CMD message with payload cmd = price has event
\* name log_cmd and properties holding the seeded context fields (with the
\* values of the settings) and, under the key CMD, the payload mapping
\* cmd = price; cmd itself is not a key of the properties.
C5_CmdBag ==
    (HasEmit /\ LastEmit.record.msg = M_cmd_price) =>
      \A i \in 1..Len(CallsOf("capture")) :
        LET cap == CallsOf("capture")[i] IN
        /\ cap.arg = PyStr(log_cmd)
        /\ C5_SeededKeys \subseteq DictKeys(cap.props)
        /\ DictGet(cap.props, K_appName) = LastEmit.settings["app_name"]
        /\ DictGet(cap.props, K_subAppName) = LastEmit.settings["sub_app_name"]
        /\ DictGet(cap.props, K_appId) = LastEmit.settings["app_id"]
        /\ DictGet(cap.props, K_sessionId) = LastEmit.settings["session_id"]
        /\ DictGet(cap.props, K_platform) = LastEmit.settings["platform"]
        /\ DictGet(cap.props, K_pythonVersion) = LastEmit.settings["python_version"]
        /\ DictGet(cap.props, K_obbPlatformVersion) = LastEmit.settings["platform_version"]
        /\ DictHas(cap.props, CMD)
        /\ DictGet(cap.props, CMD) = PyDict(<< [k |-> K_cmd, v |-> PyStr(T_price)] >>)
        /\ ~DictHas(cap.props, K_cmd)

C5_Witness ==
    /\ HasEmit
    /\ LastEmit.record.msg = M_cmd_price
    /\ CallsOf("capture") # <<>>
    /\ CallsOf("capture")[1].arg = PyStr(log_cmd)

\* the messages without a tag that begin with QUEUE, START, END or INPUT:
C6_Noisy == {M_queue, M_start, M_end, M_input}
\* severity ERROR (40) or WARNING (30) and no noise marker
C6_Reportable(record) == record.levelno \in {30, 40} /\ record.msg \notin C6_Noisy

C8_Cases ==
    { [msg |-> M_startup_a, event |-> log_startup],
      [msg |-> M_startup_empty, event |-> log_startup],
      [msg |-> M_startup_message, event |-> log_startup],
      [msg |-> M_startup_level, event |-> log_startup],
      [msg |-> M_cmd_price, event |-> log_cmd],
      [msg |-> M_queue_cmd, event |-> log_cmd],
      [msg |-> M_error_e, event |-> log_error],
      [msg |-> M_cmd_then_error, event |-> log_cmd],
      [msg |-> M_error_then_cmd, event |-> log_error] }

\* C8: a message holding at least one tag with an object payload (possibly
\* empty) gives, when nothing fails, exactly one capture call with the app id
\* as subject and the event name of the first tag, at every severity and also
\* when the message begins with a noise marker.
C8_OneCapturePerTaggedRecord ==
    HasEmit =>
      \A c \in C8_Cases :
        (/\ LastEmit.record.msg = c.msg
         /\ LastEmit.fail = "none"
         /\ LastEmit.settings \in CompleteSettings)
          => /\ Len(CallsOf("capture")) = 1
             /\ CallsOf("capture")[1].subject = LastEmit.settings["app_id"]
             /\ CallsOf("capture")[1].arg = PyStr(c.event)

\* C9 as stated, for settings that have every attribute: logged_in is set
\* only after identify and alias have been issued, so when an emit has set
\* logged_in both calls have been issued.
C9_Original ==
    (/\ HasEmit /\ LastEmit.settings \in CompleteSettings
     /\ ~LastEmit.flag /\ logged_in)
      => (nIdentify >= 1 /\ nAlias >= 1)

\* C9 amended: logged_in is set to true first, identify is issued second and
\* alias third: whenever an identify or an alias call has been issued
\* logged_in is true (also when identify or alias raises), alias is only
\* issued right after identify, and both only by an emit that found
\* logged_in false.
C9_FlagFirst ==
    /\ (nIdentify >= 1 \/ nAlias >= 1) => logged_in
    /\ nAlias <= nIdentify
    /\ HasEmit =>
         /\ \A i \in 1..Len(LastEmit.result.calls) :
               LastEmit.result.calls[i].op = "alias"
                 => (i > 1 /\ LastEmit.result.calls[i - 1].op = "identify")
         /\ \A i \in 1..Len(LastEmit.result.calls) :
               LastEmit.result.calls[i].op = "identify" => (i = 1 /\ ~LastEmit.flag)

\* identify raised: the flag is set, identify was issued, alias was not
C9_Witness ==
    /\ HasEmit
    /\ LastEmit.fail = "identify"
    /\ CallsOf("identify") # <<>>
    /\ logged_in
    /\ nIdentify = 1
    /\ nAlias = 0

\* C10: with two threads in emit on one sink, under every interleaving at most
\* one identify call and at most one alias call are issued.
C10_OneIdentifyAcrossThreads == nIdentify <= 1 /\ nAlias <= 1

====
